---- MODULE Spec2Model ----
(***************************************************************************)
(* A model of noto-font-matcher's coverage catalog code:                   *)
(*   fetch_noto_fonts.py    to_ranges, unicode_ranges, the catalog build   *)
(*                          of main (grouping, sorting, writing fonts.yaml)*)
(*   migrate_fonts_yaml.py  _parse_codepoint, _parse_range,                *)
(*                          _normalize_entry, migrate, main                *)
(* Python values are tagged records, strings are sequences of one-letter   *)
(* strings, a range is a pair <<start, end>>.                              *)
(***************************************************************************)
EXTENDS Integers, Sequences, FiniteSets, TLC

VARIABLES
    pc,          \* where the run is
    codepoints,  \* to_ranges / unicode_ranges: the codepoints handed in
    ranges,      \* to_ranges / unicode_ranges: the list returned
    item,        \* _parse_range: the legacy value handed in
    parsed,      \* _parse_range: what the call returned or raised
    prog,        \* the program run: "build" (fetch_noto_fonts.py) or "migrate"
    input_path,  \* migrate: args.input
    output_path, \* migrate: args.output, or the input path without -o
    fs,          \* the catalog files, by path
    listing,     \* build: the font files rglob yields, in its order
    paths,       \* build: sorted(rglob)
    loaded,      \* migrate: what yaml.safe_load returned
    idx,         \* how many items the grouping loop has consumed
    grouped,     \* the grouping map
    entries,     \* the entries list once built and sorted
    raised,      \* the exception that ended the run
    run          \* which run of the tool this is

fn_vars == <<codepoints, ranges, item, parsed>>
catalog_vars == <<prog, input_path, output_path, fs, listing, paths, loaded,
                  idx, grouped, entries, raised, run>>
vars == <<pc, fn_vars, catalog_vars>>

\* The catalog programs not running.
CatalogIdle ==
    /\ prog = "none"
    /\ input_path = "fonts.yaml"
    /\ output_path = "fonts.yaml"
    /\ fs = <<>>
    /\ listing = <<>>
    /\ paths = <<>>
    /\ loaded = <<>>
    /\ idx = 0
    /\ grouped = <<>>
    /\ entries = <<>>
    /\ raised = <<>>
    /\ run = 0

\* ------------------------------------------------------------------ bounds

MaxCp == 5
MaxLen == 4

\* All sequences over S of length at most n.
SeqsUpTo(S, n) == UNION {[1..k -> S] : k \in 0..n}

Range(seq) == {seq[i] : i \in DOMAIN seq}

\* ------------------------------------------------- fetch_noto_fonts.py

\* itertools.groupby(enumerate(codepoints), key = index - codepoint): the
\* ranges appended once the first i codepoints are consumed. A new group
\* starts whenever the key changes; a group's range is (first, last).
RECURSIVE groupby_scan(_, _)
groupby_scan(cps, i) ==
    IF i = 0 THEN <<>>
    ELSE LET prev == groupby_scan(cps, i - 1)
             key(j) == (j - 1) - cps[j]
         IN  IF i > 1 /\ key(i) = key(i - 1)
             THEN [prev EXCEPT ![Len(prev)] = <<prev[Len(prev)][1], cps[i]>>]
             ELSE Append(prev, <<cps[i], cps[i]>>)

\* A to_ranges that never merges neighbours (the key taken as the codepoint).
to_ranges_unmerged(cps) == [i \in 1..Len(cps) |-> <<cps[i], cps[i]>>]

to_ranges(cps) == groupby_scan(cps, Len(cps))

\* sorted(S) for a set of integers.
RECURSIVE sorted_set(_)
sorted_set(S) ==
    IF S = {} THEN <<>>
    ELSE LET m == CHOOSE x \in S : \A y \in S : x <= y
         IN  <<m>> \o sorted_set(S \ {m})

\* A unicode_ranges that hands the cmap keys over as they come.
unicode_ranges_unsorted(cmap) == to_ranges(cmap)

\* unicode_ranges on a readable font whose cmap tables hold the keys cmap.
unicode_ranges(cmap) == to_ranges(sorted_set(Range(cmap)))

\* ------------------------------------------------ the compactor, driven

InitCompact ==
    /\ pc = "start"
    /\ codepoints \in SeqsUpTo(0..MaxCp, MaxLen)
    /\ ranges = <<>>
    /\ item = 0
    /\ parsed = 0
    /\ CatalogIdle

CallToRanges ==
    /\ pc = "start"
    /\ ranges' = to_ranges(codepoints)
    /\ pc' = "to_ranges"
    /\ UNCHANGED <<codepoints, item, parsed, catalog_vars>>

CallUnicodeRanges ==
    /\ pc = "start"
    /\ ranges' = unicode_ranges(codepoints)
    /\ pc' = "unicode_ranges"
    /\ UNCHANGED <<codepoints, item, parsed, catalog_vars>>

NextCompact == CallToRanges \/ CallUnicodeRanges

SpecCompact == InitCompact /\ [][NextCompact]_vars

\* ------------------------------------------------------------ claims

\* The integers a list of ranges covers.
Covered(rs) == UNION {rs[i][1]..rs[i][2] : i \in DOMAIN rs}

IsAscending(seq) == \A i \in 1..(Len(seq) - 1) : seq[i] < seq[i + 1]

\* The runs of a set: its members whose predecessor is missing.
RunStarts(S) == {x \in S : (x - 1) \notin S}

Canonical(rs, S) ==
    /\ Covered(rs) = S
    /\ \A i \in DOMAIN rs : rs[i][1] <= rs[i][2]
    /\ \A i \in 1..(Len(rs) - 1) : rs[i + 1][1] >= rs[i][2] + 2
    /\ Len(rs) = Cardinality(RunStarts(S))

\* C1: to_ranges on the ascending duplicate-free sequence of a set S returns
\* ranges that cover exactly S, each with start <= end, consecutive ranges
\* ascending with a gap of at least one missing integer, as few as S has
\* runs; the empty set gives the empty list and a lone v gives [(v, v)].
C1_CompactionCanonical ==
    (pc = "to_ranges" /\ IsAscending(codepoints)) =>
        /\ Canonical(ranges, Range(codepoints))
        /\ (codepoints = <<>> => ranges = <<>>)
        /\ (Len(codepoints) = 1 => ranges = <<<<codepoints[1], codepoints[1]>>>>)

C1_Witness ==
    /\ pc = "to_ranges"
    /\ codepoints = <<0, 1, 2, 5>>
    /\ ranges = <<<<0, 2>>, <<5, 5>>>>

\* C2 as stated: for every sequence, in any order and with repeats, to_ranges
\* returns what it returns for the sorted, de-duplicated values.
C2_ToRangesNormalizes ==
    pc = "to_ranges" => ranges = to_ranges(sorted_set(Range(codepoints)))

\* C2 amended: to_ranges does not normalize. For any sequence its ranges have
\* start <= end and cover exactly the sequence's values, and they are the
\* canonical RangeSet of those values exactly when the sequence is already
\* ascending and duplicate-free. The sort + dedupe is done by its caller:
\* unicode_ranges returns the canonical RangeSet of the values for every
\* sequence of cmap keys, whatever their order and repeats.
C2_CallerNormalizes ==
    /\ pc = "unicode_ranges" => Canonical(ranges, Range(codepoints))
    /\ pc = "to_ranges" =>
          /\ Covered(ranges) = Range(codepoints)
          /\ \A i \in DOMAIN ranges : ranges[i][1] <= ranges[i][2]
          /\ Canonical(ranges, Range(codepoints)) <=> IsAscending(codepoints)

C2_Witness ==
    /\ pc = "unicode_ranges"
    /\ codepoints = <<3, 1, 2, 1>>
    /\ ranges = <<<<1, 3>>>>

\* ------------------------------------------- Python values and strings

MaxStrLen == 3

\* A Python value: t its type, n an int's value, s a str's characters, l a
\* list's items.
PyInt(n) == [t |-> "int", n |-> n, s |-> <<>>, l |-> <<>>]
PyStr(s) == [t |-> "str", n |-> 0, s |-> s, l |-> <<>>]
PyList(l) == [t |-> "list", n |-> 0, s |-> <<>>, l |-> l]
PyDict == [t |-> "dict", n |-> 0, s |-> <<>>, l |-> <<>>]
PyFloat == [t |-> "float", n |-> 0, s |-> <<>>, l |-> <<>>]
PyNone == [t |-> "NoneType", n |-> 0, s |-> <<>>, l |-> <<>>]
\* type(x), as an error message shows it.
PyType(x) == [t |-> "type", n |-> 0, s |-> <<x.t>>, l |-> <<>>]

HexDigits == <<"0", "1", "2", "3", "4", "5", "6", "7", "8", "9",
               "A", "B", "C", "D", "E", "F">>
LowerHex == <<"a", "b", "c", "d", "e", "f">>

IsHexDigit(c) == c \in Range(HexDigits) \cup Range(LowerHex)

HexDigitVal(c) ==
    IF c \in Range(LowerHex)
    THEN 9 + (CHOOSE i \in DOMAIN LowerHex : LowerHex[i] = c)
    ELSE (CHOOSE i \in DOMAIN HexDigits : HexDigits[i] = c) - 1

\* str.strip(): leading and trailing blanks dropped.
RECURSIVE lstrip(_)
lstrip(s) == IF s /= <<>> /\ s[1] = " " THEN lstrip(Tail(s)) ELSE s
RECURSIVE rstrip(_)
rstrip(s) ==
    IF s /= <<>> /\ s[Len(s)] = " " THEN rstrip(SubSeq(s, 1, Len(s) - 1)) ELSE s
strip(s) == rstrip(lstrip(s))

\* str.find(sub) + 1: where sub first occurs in s, 0 when it does not.
find(s, sub) ==
    LET hits == {i \in 1..(Len(s) - Len(sub) + 1) :
                    SubSeq(s, i, i + Len(sub) - 1) = sub}
    IN  IF hits = {} THEN 0 ELSE CHOOSE i \in hits : \A j \in hits : i <= j

\* s.split(sep, 1) when sep occurs in s.
split1(s, sep) ==
    LET i == find(s, sep)
    IN  <<SubSeq(s, 1, i - 1), SubSeq(s, i + Len(sep), Len(s))>>

\* s.replace("..", "-")
RECURSIVE replace_dots(_)
replace_dots(s) ==
    IF Len(s) < 2 THEN s
    ELSE IF s[1] = "." /\ s[2] = "." THEN <<"-">> \o replace_dots(SubSeq(s, 3, Len(s)))
    ELSE <<s[1]>> \o replace_dots(Tail(s))

\* The value of a string of hex digits.
RECURSIVE hex_value(_)
hex_value(ds) ==
    IF ds = <<>> THEN 0
    ELSE 16 * hex_value(SubSeq(ds, 1, Len(ds) - 1)) + HexDigitVal(ds[Len(ds)])

\* int(val, 16): blanks stripped, an optional sign, an optional 0x, then one
\* or more hex digits; anything else is a ValueError.
int_digits(digits) ==
    IF digits /= <<>> /\ \A i \in DOMAIN digits : IsHexDigit(digits[i])
    THEN [ok |-> TRUE, n |-> hex_value(digits)]
    ELSE [ok |-> FALSE, n |-> 0]
int_prefixed(body) ==
    IF Len(body) >= 2 /\ body[1] = "0" /\ body[2] \in {"x", "X"}
    THEN int_digits(SubSeq(body, 3, Len(body)))
    ELSE int_digits(body)
int_negated(r) == IF r.ok THEN [ok |-> TRUE, n |-> 0 - r.n] ELSE r
int_signed(v) ==
    IF v /= <<>> /\ v[1] = "-" THEN int_negated(int_prefixed(Tail(v)))
    ELSE IF v /= <<>> /\ v[1] = "+" THEN int_prefixed(Tail(v))
    ELSE int_prefixed(v)
int16(val) == int_signed(strip(val))

\* ------------------------------------------------ migrate_fonts_yaml.py

Raise(exc, text, shown) ==
    [ok |-> FALSE, start |-> 0, end |-> 0, exc |-> exc, text |-> text, shown |-> shown]
Return(start, end) ==
    [ok |-> TRUE, start |-> start, end |-> end, exc |-> "", text |-> "", shown |-> PyNone]

NotRaised == Raise("", "", PyNone)

\* _parse_codepoint: the value is in start (and end).
\* val[2:] when val.upper().startswith("U+")
without_u_plus(val) ==
    IF Len(val) >= 2 /\ val[1] \in {"U", "u"} /\ val[2] = "+"
    THEN SubSeq(val, 3, Len(val))
    ELSE val

\* What int(val, 16) returned, or the ValueError it raised for val.
int_or_error(r, val) ==
    IF r.ok THEN Return(r.n, r.n)
    ELSE Raise("ValueError", "invalid literal for int() with base 16", PyStr(val))
parse_hex(val) == int_or_error(int16(val), val)

_parse_codepoint(value) ==
    IF value.t = "int" THEN Return(value.n, value.n)
    ELSE IF value.t = "str"
    THEN parse_hex(replace_dots(without_u_plus(strip(value.s))))
    ELSE Raise("TypeError", "Unsupported codepoint value", value)

\* A return that keeps the pair as written.
oriented_unswapped(a, b) ==
    IF ~a.ok THEN a ELSE IF ~b.ok THEN b ELSE Return(a.start, b.start)

\* The pair _parse_range returns from two parsed codepoints, or the first
\* failure of the two.
oriented(a, b) ==
    IF ~a.ok THEN a
    ELSE IF ~b.ok THEN b
    ELSE IF a.start <= b.start THEN Return(a.start, b.start)
    ELSE Return(b.start, a.start)

\* start_str, end_str of a string item.
range_parts(str) ==
    IF find(str, <<".", ".">>) > 0 THEN split1(str, <<".", ".">>)
    ELSE IF find(str, <<"-">>) > 0 THEN split1(str, <<"-">>)
    ELSE <<str, str>>
parse_parts(parts) ==
    oriented(_parse_codepoint(PyStr(parts[1])), _parse_codepoint(PyStr(parts[2])))

_parse_range(it) ==
    IF it.t = "str"
    THEN parse_parts(range_parts(it.s))
    ELSE IF it.t = "list"
    THEN IF Len(it.l) = 1
         THEN _parse_codepoint(it.l[1])
         ELSE IF Len(it.l) = 2
         THEN oriented(_parse_codepoint(it.l[1]), _parse_codepoint(it.l[2]))
         ELSE Raise("ValueError", "Range list must have 1 or 2 elements", it)
    ELSE Raise("TypeError", "Unsupported range type", PyType(it))

\* ------------------------------------------- the normalizer, driven

\* Hex tokens, each with the number it writes.
Tokens ==
    { [s |-> <<"4", "1">>, n |-> 65],
      [s |-> <<"5", "A">>, n |-> 90],
      [s |-> <<"5", "a">>, n |-> 90],
      [s |-> <<"0", "0", "4", "1">>, n |-> 65],
      [s |-> <<"0", "0", "5", "A">>, n |-> 90],
      [s |-> <<"0">>, n |-> 0],
      [s |-> <<"0", "x", "4", "1">>, n |-> 65],
      [s |-> <<"1", "F", "6", "0", "0">>, n |-> 128512] }
Prefixes == {<<>>, <<"U", "+">>, <<"u", "+">>}
Separators == {<<".", ".">>, <<"-">>}
IntPool == {0, 65, 90}

\* A scalar: an int, or a token with an optional U+ prefix; n is its value.
Scalars ==
    {[v |-> PyInt(n), n |-> n] : n \in IntPool}
    \cup {[v |-> PyStr(p \o t.s), n |-> t.n] : p \in Prefixes, t \in Tokens}
StringScalars == {x \in Scalars : x.v.t = "str"}

\* "A..B" and "A-B"; a and b are the values of A and B.
PairStrings ==
    {[v |-> PyStr(x.v.s \o sep \o y.v.s), a |-> x.n, b |-> y.n] :
        x \in StringScalars, y \in StringScalars, sep \in Separators}
OneLists == {[v |-> PyList(<<x.v>>), n |-> x.n] : x \in Scalars}
TwoLists == {[v |-> PyList(<<x.v, y.v>>), a |-> x.n, b |-> y.n] : x \in Scalars, y \in Scalars}

\* Values outside the shapes _parse_range handles.
Unrecognized ==
    { PyDict, PyNone, PyFloat,
      PyList(<<>>),
      PyList(<<PyInt(0), PyInt(65), PyInt(90)>>),
      PyList(<<PyNone>>),
      PyList(<<PyInt(65), PyFloat>>),
      PyList(<<PyDict, PyInt(65)>>),
      PyList(<<PyList(<<>>)>>) }

Alphabet == {"U", "u", "+", "-", ".", " ", "0", "x", "4", "1", "A", "a"}

LegacyValues ==
    {x.v : x \in Scalars} \cup {x.v : x \in PairStrings}
    \cup {x.v : x \in OneLists} \cup {x.v : x \in TwoLists}
    \cup Unrecognized
    \cup {PyStr(s) : s \in SeqsUpTo(Alphabet, MaxStrLen)}

InitParse ==
    /\ pc = "start"
    /\ item \in LegacyValues
    /\ parsed = <<>>
    /\ codepoints = <<>>
    /\ ranges = <<>>
    /\ CatalogIdle

CallParseRange ==
    /\ pc = "start"
    /\ parsed' = _parse_range(item)
    /\ pc' = "returned"
    /\ UNCHANGED <<codepoints, ranges, item, catalog_vars>>

NextParse == CallParseRange

SpecParse == InitParse /\ [][NextParse]_vars

\* ------------------------------------------------------------ claims

Min(a, b) == IF a <= b THEN a ELSE b
Max(a, b) == IF a <= b THEN b ELSE a

\* What C7 says of strings and lists.
C7_StringsAndLists ==
    pc = "returned" =>
        /\ parsed.ok => parsed.start <= parsed.end
        /\ \A x \in StringScalars : item = x.v => parsed = Return(x.n, x.n)
        /\ \A x \in PairStrings :
              item = x.v => parsed = Return(Min(x.a, x.b), Max(x.a, x.b))
        /\ \A x \in OneLists : item = x.v => parsed = Return(x.n, x.n)
        /\ \A x \in TwoLists :
              item = x.v => parsed = Return(Min(x.a, x.b), Max(x.a, x.b))
        /\ item \in { PyStr(<<"U", "+", "0", "0", "4", "1", "-", "U", "+", "0", "0", "5", "A">>),
                      PyStr(<<"4", "1", ".", ".", "5", "A">>),
                      PyList(<<PyInt(65), PyInt(90)>>) }
              => parsed = Return(65, 90)

\* C7 as stated: _parse_range accepts a single integer v and gives (v, v),
\* next to the string and list shapes.
C7_AcceptsEveryShape ==
    /\ C7_StringsAndLists
    /\ (pc = "returned" /\ item.t = "int") => parsed = Return(item.n, item.n)

\* C7 amended: _parse_range returns (start, end) with start <= end for the
\* string and list shapes ("A..B", "A-B", a scalar string, a one-element
\* list, a two-element list swapped when a > b; tokens read in base 16 after
\* an optional U+ or u+), but a single integer that is not inside a list is
\* refused with TypeError "Unsupported range type".
C7_AcceptsStringsAndLists ==
    /\ C7_StringsAndLists
    /\ (pc = "returned" /\ item.t = "int") =>
          parsed = Raise("TypeError", "Unsupported range type", PyType(item))

C7_Witness ==
    /\ pc = "returned"
    /\ item = PyList(<<PyStr(<<"U", "+", "5", "A">>), PyInt(65)>>)
    /\ parsed = Return(65, 90)

\* ------------------------------------------------- Python's orderings

\* The characters used, in code point order.
AsciiOrder ==
    <<" ", "+", "-", ".", "/", "0", "1", "2", "3", "4", "5", "6", "7", "8", "9",
      "A", "B", "C", "D", "E", "F", "O", "R", "T", "U", "X",
      "a", "b", "c", "d", "e", "f", "i", "n", "o", "r", "s", "t", "u", "x">>
Ord(c) == CHOOSE i \in DOMAIN AsciiOrder : AsciiOrder[i] = c

\* str < str: by code point, a proper prefix first.
RECURSIVE str_lt(_, _)
str_lt(a, b) ==
    IF b = <<>> THEN FALSE
    ELSE IF a = <<>> THEN TRUE
    ELSE IF a[1] = b[1] THEN str_lt(Tail(a), Tail(b))
    ELSE Ord(a[1]) < Ord(b[1])

\* (start, end) < (start, end)
pair_lt(p, q) == p[1] < q[1] \/ (p[1] = q[1] /\ p[2] < q[2])

\* list of pairs < list of pairs
RECURSIVE ranges_lt(_, _)
ranges_lt(a, b) ==
    IF b = <<>> THEN FALSE
    ELSE IF a = <<>> THEN TRUE
    ELSE IF a[1] = b[1] THEN ranges_lt(Tail(a), Tail(b))
    ELSE pair_lt(a[1], b[1])

\* A sort key that looks at the family alone.
entry_key_lt_family_only(e, f) == str_lt(e.family, f.family)

\* key = (e["family"], e["unicode_ranges"])
entry_key_lt(e, f) ==
    \/ str_lt(e.family, f.family)
    \/ e.family = f.family /\ ranges_lt(e.unicode_ranges, f.unicode_ranges)

\* x put into the sorted s behind everything not greater than it (a stable
\* sort keeps equal keys in their order).
insert_sorted(s, x, Lt(_, _)) ==
    LET k == Cardinality({i \in DOMAIN s : ~Lt(x, s[i])})
    IN  SubSeq(s, 1, k) \o <<x>> \o SubSeq(s, k + 1, Len(s))

RECURSIVE sorted_strs(_)
sorted_strs(seq) ==
    IF seq = <<>> THEN <<>>
    ELSE insert_sorted(sorted_strs(SubSeq(seq, 1, Len(seq) - 1)), seq[Len(seq)], str_lt)

RECURSIVE sorted_pairs(_)
sorted_pairs(seq) ==
    IF seq = <<>> THEN <<>>
    ELSE insert_sorted(sorted_pairs(SubSeq(seq, 1, Len(seq) - 1)), seq[Len(seq)], pair_lt)

RECURSIVE sort_entries(_)
sort_entries(seq) ==
    IF seq = <<>> THEN <<>>
    ELSE insert_sorted(sort_entries(SubSeq(seq, 1, Len(seq) - 1)), seq[Len(seq)], entry_key_lt)

\* list(dict.fromkeys(seq)): the first occurrence of each item, in order.
RECURSIVE fromkeys(_)
fromkeys(seq) ==
    IF seq = <<>> THEN <<>>
    ELSE LET front == fromkeys(SubSeq(seq, 1, Len(seq) - 1))
         IN  IF seq[Len(seq)] \in Range(front) THEN front
             ELSE Append(front, seq[Len(seq)])

\* files left as accumulated, duplicates dropped.
rendered_files_unsorted(files) == fromkeys(files)

\* files sorted, duplicates kept.
rendered_files_with_duplicates(files) == sorted_strs(files)

\* sorted(dict.fromkeys(files))
rendered_files(files) == sorted_strs(fromkeys(files))

\* --------------------------------------------------- the grouping map

\* grouped: a dict in insertion order, a sequence of [key, value].
position(g, key) ==
    LET hits == {i \in DOMAIN g : g[i].key = key}
    IN  IF hits = {} THEN 0 ELSE CHOOSE i \in hits : TRUE

\* A setdefault that makes a new bucket every time.
setdefault_always_new(g, key, default) == Append(g, [key |-> key, value |-> default])

\* grouped.setdefault(key, default), as the dict it leaves.
setdefault(g, key, default) ==
    IF position(g, key) > 0 THEN g ELSE Append(g, [key |-> key, value |-> default])

\* The bucket setdefault returned: the last one under the key.
bucket_of(g, key) ==
    CHOOSE i \in DOMAIN g :
        g[i].key = key /\ \A j \in DOMAIN g : g[j].key = key => j <= i

\* ------------------------------------ fetch_noto_fonts.py, the build

Upper == <<"A", "B", "C", "D", "E", "F", "O", "R", "T", "U", "X">>
Lower == <<"a", "b", "c", "d", "e", "f", "o", "r", "t", "u", "x">>
lower_char(c) ==
    IF c \in Range(Upper) THEN Lower[CHOOSE i \in DOMAIN Upper : Upper[i] = c] ELSE c
lower(s) == [i \in DOMAIN s |-> lower_char(s[i])]

\* font_path.suffix: from the name's last dot on.
suffix(name) ==
    LET dots == {i \in DOMAIN name : name[i] = "."}
    IN  IF dots = {} THEN <<>>
        ELSE SubSeq(name, CHOOSE i \in dots : \A j \in dots : j <= i, Len(name))

FontSuffixes == {<<".", "t", "t", "f">>, <<".", "o", "t", "f">>, <<".", "t", "t", "c">>}

\* str(font_path.relative_to(ROOT)) of fonts/<family>/<name>
rel_path(font) == <<"f", "o", "n", "t", "s", "/">> \o font.family \o <<"/">> \o font.name

\* Path < Path: part by part.
path_lt(f, g) ==
    str_lt(f.family, g.family) \/ (f.family = g.family /\ str_lt(f.name, g.name))

\* sorted(FONTS_DIR.rglob("*.*"))
RECURSIVE sorted_paths(_)
sorted_paths(seq) ==
    IF seq = <<>> THEN <<>>
    ELSE insert_sorted(sorted_paths(SubSeq(seq, 1, Len(seq) - 1)), seq[Len(seq)], path_lt)

\* One font file of the loop accumulated into grouped (lines 238-249).
\* entry["files"].append(path) on the bucket under key.
append_to_bucket(g, key, path) ==
    [g EXCEPT ![bucket_of(g, key)].value.files = Append(@, path)]
accumulate_font(g, font, rs) ==
    append_to_bucket(setdefault(g, <<font.family, rs>>,
                                [family |-> font.family, files |-> <<>>,
                                 unicode_ranges |-> rs]),
                     <<font.family, rs>>, rel_path(font))
build_accumulate(g, font) == accumulate_font(g, font, unicode_ranges(font.cmap))

\* entries, built from grouped and sorted (lines 251-261).
build_entries(g) ==
    sort_entries([i \in DOMAIN g |->
        [family |-> g[i].key[1],
         files |-> rendered_files(g[i].value.files),
         unicode_ranges |-> g[i].key[2]]])

\* ------------------------------------------------- the catalog file

YamlPlain(s) == [t |-> "plain", n |-> 0, s |-> s, l |-> <<>>]
YamlFlow(l) == [t |-> "flow", n |-> 0, s |-> <<>>, l |-> l]

RECURSIVE hex_digits(_)
hex_digits(n) ==
    IF n < 16 THEN <<HexDigits[n + 1]>>
    ELSE hex_digits(n \div 16) \o <<HexDigits[(n % 16) + 1]>>

RECURSIVE zero_padded(_, _)
zero_padded(ds, width) ==
    IF Len(ds) >= width THEN ds ELSE zero_padded(<<"0">> \o ds, width)

HexWidth == 4

\* A representer that writes the number in decimal digits after 0x.
RECURSIVE dec_digits(_)
dec_digits(n) ==
    IF n < 10 THEN <<HexDigits[n + 1]>>
    ELSE dec_digits(n \div 10) \o <<HexDigits[(n % 10) + 1]>>
_represent_hexint_decimal(n) == YamlPlain(<<"0", "x">> \o zero_padded(dec_digits(n), HexWidth))

\* f"0x{int(data):04X}" as a plain int scalar, for a codepoint n >= 0.
_represent_hexint(n) == YamlPlain(<<"0", "x">> \o zero_padded(hex_digits(n), HexWidth))

\* A pair as a flow sequence.
_represent_tuple(pair) ==
    YamlFlow(<<_represent_hexint(pair[1]), _represent_hexint(pair[2])>>)

\* yaml.dump(entries, Dumper=HexDumper, sort_keys=False): the entries in the
\* order given, each range a flow pair of hex scalars.
dump(es) ==
    [i \in DOMAIN es |->
        [family |-> es[i].family,
         file |-> <<>>,
         files |-> es[i].files,
         unicode_ranges |-> [j \in DOMAIN es[i].unicode_ranges |->
                                _represent_tuple(es[i].unicode_ranges[j])]]]

\* What yaml.safe_load makes of a node: a plain 0x scalar is an int, a flow
\* sequence a list; a value the file holds already resolved stays.
RECURSIVE construct(_)
construct(node) ==
    IF node.t = "plain"
    THEN IF /\ Len(node.s) > 2
            /\ SubSeq(node.s, 1, 2) = <<"0", "x">>
            /\ \A i \in 3..Len(node.s) : IsHexDigit(node.s[i])
         THEN PyInt(hex_value(SubSeq(node.s, 3, Len(node.s))))
         ELSE PyStr(node.s)
    ELSE IF node.t = "flow"
    THEN PyList([i \in DOMAIN node.l |-> construct(node.l[i])])
    ELSE node

safe_load(doc) ==
    [i \in DOMAIN doc |->
        [doc[i] EXCEPT !.unicode_ranges = [j \in DOMAIN @ |-> construct(@[j])]]]

\* --------------------------------- migrate_fonts_yaml.py, the migration

\* _normalize_entry: family, files and the sorted ranges, or the first
\* failure of _parse_range (the generator is consumed in order).
\* The first of the results rs that is a failure, 0 when none is.
first_failure(rs) ==
    IF \A j \in DOMAIN rs : rs[j].ok THEN 0
    ELSE CHOOSE j \in DOMAIN rs : ~rs[j].ok /\ \A k \in 1..(j - 1) : rs[k].ok

\* What _normalize_entry returns when _parse_range gave rs for its ranges.
normalized(entry, rs, bad) ==
    IF bad > 0
    THEN [ok |-> FALSE, family |-> entry.family, files |-> <<>>, ranges |-> <<>>,
          raised |-> rs[bad]]
    ELSE [ok |-> TRUE, family |-> entry.family,
          files |-> (IF entry.file /= <<>> THEN <<entry.file>> ELSE <<>>) \o entry.files,
          ranges |-> sorted_pairs([j \in DOMAIN rs |-> <<rs[j].start, rs[j].end>>]),
          raised |-> NotRaised]
parsed_ranges(rs) == [j \in DOMAIN rs |-> _parse_range(rs[j])]
normalized_from(entry, rs) == normalized(entry, rs, first_failure(rs))

_normalize_entry(entry) == normalized_from(entry, parsed_ranges(entry.unicode_ranges))

\* bucket["files"].extend(files) on the bucket under key.
extend_bucket(g, key, files) ==
    [g EXCEPT ![bucket_of(g, key)].value.files = @ \o files]

\* One normalized entry accumulated into grouped (lines 87-89).
migrate_accumulate(g, norm) ==
    extend_bucket(setdefault(g, <<norm.family, norm.ranges>>,
                             [family |-> norm.family, files |-> <<>>,
                              unicode_ranges |-> norm.ranges]),
                  <<norm.family, norm.ranges>>, norm.files)

\* result, built from grouped and sorted (lines 91-102).
migrate_result(g) ==
    sort_entries([i \in DOMAIN g |->
        [family |-> g[i].key[1],
         files |-> rendered_files(g[i].value.files),
         unicode_ranges |-> g[i].key[2]]])

\* The loop of migrate over the first i entries: grouped, or the failure.
loop_turn(before, norm) ==
    IF ~before.ok THEN before
    ELSE IF ~norm.ok THEN [ok |-> FALSE, grouped |-> <<>>, raised |-> norm.raised]
    ELSE [ok |-> TRUE, grouped |-> migrate_accumulate(before.grouped, norm),
          raised |-> NotRaised]
RECURSIVE migrate_loop(_, _)
migrate_loop(es, i) ==
    IF i = 0 THEN [ok |-> TRUE, grouped |-> <<>>, raised |-> NotRaised]
    ELSE loop_turn(migrate_loop(es, i - 1), _normalize_entry(es[i]))

\* What migrate returns or raises once its loop ended.
migrate_return(loop) ==
    IF loop.ok THEN [ok |-> TRUE, result |-> migrate_result(loop.grouped),
                     raised |-> NotRaised]
    ELSE [ok |-> FALSE, result |-> <<>>, raised |-> loop.raised]

\* migrate(entries): the result, or the exception it raised.
migrate(es) == migrate_return(migrate_loop(es, Len(es)))

\* The build's grouping loop over the first i sorted paths.
IsFontFile(font) == lower(suffix(font.name)) \in FontSuffixes

build_turn(before, font) ==
    IF ~before.ok \/ ~IsFontFile(font) THEN before
    ELSE IF ~font.readable THEN [ok |-> FALSE, grouped |-> <<>>]
    ELSE [ok |-> TRUE, grouped |-> build_accumulate(before.grouped, font)]
RECURSIVE build_loop(_, _)
build_loop(ps, i) ==
    IF i = 0 THEN [ok |-> TRUE, grouped |-> <<>>]
    ELSE build_turn(build_loop(ps, i - 1), ps[i])

build_return(loop) ==
    IF loop.ok THEN [ok |-> TRUE, result |-> build_entries(loop.grouped)]
    ELSE [ok |-> FALSE, result |-> <<>>]

\* ------------------------------------------------ the programs, driven

MaxFonts == 3
MaxEntries == 3
MaxRuns == 2

Font(family, name, cmap, readable) ==
    [family |-> family, name |-> name, cmap |-> cmap, readable |-> readable]

\* Font files under fonts/: the cmap keys as the tables give them.
FontPool ==
    { Font(<<"A">>, <<"r", ".", "t", "t", "f">>, <<65, 66, 67, 70>>, TRUE),
      Font(<<"A">>, <<"b", ".", "t", "t", "f">>, <<70, 65, 67, 66, 66>>, TRUE),
      Font(<<"A">>, <<"i", ".", "o", "t", "f">>, <<65, 66, 67>>, TRUE),
      Font(<<"B">>, <<"r", ".", "t", "t", "f">>, <<65, 66, 67, 70>>, TRUE),
      Font(<<"A">>, <<"n", ".", "t", "x", "t">>, <<>>, FALSE),
      Font(<<"B">>, <<"x", ".", "t", "t", "f">>, <<>>, FALSE),
      Font(<<"a">>, <<"R", ".", "T", "T", "F">>, <<>>, TRUE) }

Legacy(family, file, files, rs) ==
    [family |-> family, file |-> file, files |-> files, unicode_ranges |-> rs]

\* Entries of a legacy fonts.yaml, as yaml.safe_load hands them over.
LegacyPool ==
    { Legacy(<<"A">>, <<"a">>, <<>>, <<PyStr(<<"4", "1", "-", "5", "A">>)>>),
      Legacy(<<"A">>, <<>>, <<<<"b">>, <<"a">>>>, <<PyList(<<PyInt(65), PyInt(90)>>)>>),
      Legacy(<<"A">>, <<"c">>, <<<<"c">>>>,
             <<PyStr(<<"6", "1", ".", ".", "7", "A">>),
               PyStr(<<"U", "+", "4", "1", "-", "U", "+", "5", "A">>)>>),
      Legacy(<<"B">>, <<"a">>, <<>>,
             <<PyStr(<<"1", "F", "6", "0", "0">>), PyList(<<PyStr(<<"5", "A">>), PyInt(65)>>)>>),
      Legacy(<<"a">>, <<>>, <<>>, <<>>),
      Legacy(<<"A">>, <<"d">>, <<>>, <<PyDict>>),
      Legacy(<<"B">>, <<"d">>, <<>>,
             <<PyStr(<<"4", "1">>), PyList(<<PyInt(0), PyInt(65), PyInt(90)>>)>>),
      Legacy(<<"A">>, <<"e">>, <<>>, <<PyList(<<PyNone, PyInt(65)>>)>>),
      Legacy(<<"A">>, <<"e">>, <<>>, <<PyInt(65)>>) }

\* The fonts.yaml an earlier build left.
OldCatalog ==
    dump(<<[family |-> <<"A">>, files |-> <<<<"o">>>>, unicode_ranges |-> <<<<65, 90>>>>]>>)

IsInjective(seq) == \A i, j \in DOMAIN seq : seq[i] = seq[j] => i = j

FnIdle ==
    /\ codepoints = <<>>
    /\ ranges = <<>>
    /\ item = 0
    /\ parsed = <<>>

InitBuild ==
    /\ prog = "build"
    /\ listing \in {l \in SeqsUpTo(FontPool, MaxFonts) : IsInjective(l)}
    /\ fs = [p \in {"fonts.yaml", "out.yaml"} |-> IF p = "fonts.yaml" THEN OldCatalog ELSE <<>>]
    /\ input_path = "fonts.yaml"
    /\ output_path = "fonts.yaml"
    /\ loaded = <<>>

InitMigrate ==
    /\ prog = "migrate"
    /\ listing = <<>>
    /\ \E legacy \in SeqsUpTo(LegacyPool, MaxEntries) :
          fs = [p \in {"fonts.yaml", "out.yaml"} |-> IF p = "fonts.yaml" THEN legacy ELSE <<>>]
    /\ input_path = "fonts.yaml"
    /\ output_path \in {"fonts.yaml", "out.yaml"}
    /\ loaded = <<>>

InitCatalog ==
    /\ pc = "start"
    /\ FnIdle
    /\ InitBuild \/ InitMigrate
    /\ paths = <<>>
    /\ idx = 0
    /\ grouped = <<>>
    /\ entries = <<>>
    /\ raised = NotRaised
    /\ run = 1

\* grouped = {} and sorted(FONTS_DIR.rglob("*.*")) (lines 234-235).
BuildScan ==
    /\ prog = "build" /\ pc = "start"
    /\ paths' = sorted_paths(listing)
    /\ idx' = 0
    /\ grouped' = <<>>
    /\ pc' = "grouping"
    /\ UNCHANGED <<fn_vars, prog, input_path, output_path, fs, listing, loaded,
                   entries, raised, run>>

\* One turn of the loop (lines 235-249): a file that is no font is skipped,
\* an unreadable font ends the run with TTFont's exception.
BuildGroupStep ==
    /\ prog = "build" /\ pc = "grouping" /\ idx < Len(paths)
    /\ LET font == paths[idx + 1]
       IN  IF ~IsFontFile(font)
           THEN idx' = idx + 1 /\ UNCHANGED <<pc, grouped, raised>>
           ELSE IF ~font.readable
           THEN /\ pc' = "failed"
                /\ raised' = Raise("TTLibError", "Not a TrueType or OpenType font",
                                   PyStr(rel_path(font)))
                /\ UNCHANGED <<idx, grouped>>
           ELSE /\ grouped' = build_accumulate(grouped, font)
                /\ idx' = idx + 1
                /\ UNCHANGED <<pc, raised>>
    /\ UNCHANGED <<fn_vars, prog, input_path, output_path, fs, listing, paths,
                   loaded, entries, run>>

\* entries built and sorted (lines 251-261).
BuildEntries ==
    /\ prog = "build" /\ pc = "grouping" /\ idx = Len(paths)
    /\ entries' = build_entries(grouped)
    /\ pc' = "sorted"
    /\ UNCHANGED <<fn_vars, prog, input_path, output_path, fs, listing, paths,
                   loaded, idx, grouped, raised, run>>

\* DB_PATH opened for writing and the entries dumped (lines 262-266).
BuildWrite ==
    /\ prog = "build" /\ pc = "sorted"
    /\ fs' = [fs EXCEPT !["fonts.yaml"] = dump(entries)]
    /\ pc' = "done"
    /\ UNCHANGED <<fn_vars, prog, input_path, output_path, listing, paths, loaded,
                   idx, grouped, entries, raised, run>>

\* A load that opens the output for writing before the migration.
MigrateLoadTruncating ==
    /\ prog = "migrate" /\ pc = "start"
    /\ loaded' = safe_load(fs[input_path])
    /\ fs' = [fs EXCEPT ![output_path] = <<>>]
    /\ idx' = 0
    /\ grouped' = <<>>
    /\ pc' = "grouping"
    /\ UNCHANGED <<fn_vars, prog, input_path, output_path, listing, paths,
                   entries, raised, run>>

\* entries = yaml.safe_load(input) and grouped = {} (lines 120, 84).
MigrateLoad ==
    /\ prog = "migrate" /\ pc = "start"
    /\ loaded' = safe_load(fs[input_path])
    /\ idx' = 0
    /\ grouped' = <<>>
    /\ pc' = "grouping"
    /\ UNCHANGED <<fn_vars, prog, input_path, output_path, fs, listing, paths,
                   entries, raised, run>>

\* A turn of the loop that drops an entry it cannot normalize.
accumulate_if_ok(g, norm) == IF norm.ok THEN migrate_accumulate(g, norm) ELSE g
MigrateGroupStepSkipping ==
    /\ prog = "migrate" /\ pc = "grouping" /\ idx < Len(loaded)
    /\ grouped' = accumulate_if_ok(grouped, _normalize_entry(loaded[idx + 1]))
    /\ idx' = idx + 1
    /\ UNCHANGED <<fn_vars, pc, raised, prog, input_path, output_path, fs, listing,
                   paths, loaded, entries, run>>

\* One turn of migrate's loop (lines 85-89): an exception of _parse_range
\* leaves migrate and main.
MigrateGroupStep ==
    /\ prog = "migrate" /\ pc = "grouping" /\ idx < Len(loaded)
    /\ \E norm \in {_normalize_entry(loaded[idx + 1])} :
           IF ~norm.ok
           THEN /\ pc' = "failed"
                /\ raised' = norm.raised
                /\ UNCHANGED <<idx, grouped>>
           ELSE /\ grouped' = migrate_accumulate(grouped, norm)
                /\ idx' = idx + 1
                /\ UNCHANGED <<pc, raised>>
    /\ UNCHANGED <<fn_vars, prog, input_path, output_path, fs, listing, paths,
                   loaded, entries, run>>

\* result built, sorted and returned (lines 91-103).
MigrateEntries ==
    /\ prog = "migrate" /\ pc = "grouping" /\ idx = Len(loaded)
    /\ entries' = migrate_result(grouped)
    /\ pc' = "sorted"
    /\ UNCHANGED <<fn_vars, prog, input_path, output_path, fs, listing, paths,
                   loaded, idx, grouped, raised, run>>

\* The output opened for writing and the result dumped (lines 123-127).
MigrateWrite ==
    /\ prog = "migrate" /\ pc = "sorted"
    /\ fs' = [fs EXCEPT ![output_path] = dump(entries)]
    /\ pc' = "done"
    /\ UNCHANGED <<fn_vars, prog, input_path, output_path, listing, paths, loaded,
                   idx, grouped, entries, raised, run>>

\* The tool run again on the file it wrote, in place.
Remigrate ==
    /\ prog = "migrate" /\ pc = "done" /\ run < MaxRuns
    /\ run' = run + 1
    /\ input_path' = output_path
    /\ pc' = "start"
    /\ loaded' = <<>>
    /\ idx' = 0
    /\ grouped' = <<>>
    /\ entries' = <<>>
    /\ UNCHANGED <<fn_vars, prog, output_path, fs, listing, paths, raised>>

NextCatalog ==
    \/ BuildScan \/ BuildGroupStep \/ BuildEntries \/ BuildWrite
    \/ MigrateLoad \/ MigrateGroupStep \/ MigrateEntries \/ MigrateWrite
    \/ Remigrate

SpecCatalog == InitCatalog /\ [][NextCatalog]_vars

\* ------------------------------------------------------------ claims

\* The orders a sequence's items can come in.
Perms(seq) ==
    {[i \in DOMAIN seq |-> seq[p[i]]] : p \in Permutations(DOMAIN seq)}

Finished == pc \in {"sorted", "done"}

\* C3: the catalog does not depend on the order of the inputs: the build's
\* grouping loop and sort give the same entries, with the same files lists,
\* for every order of the font files, and migrate for every order of the
\* legacy entries.
C3_OrderIndependent ==
    Finished =>
        /\ prog = "build" =>
              \A q \in Perms(paths) :
                  build_return(build_loop(q, Len(q))) = [ok |-> TRUE, result |-> entries]
        /\ prog = "migrate" =>
              \A q \in Perms(loaded) :
                  migrate(q) = [ok |-> TRUE, result |-> entries, raised |-> NotRaised]

C3_Witness ==
    /\ prog = "migrate" /\ pc = "done"
    /\ Len(loaded) = 3
    /\ loaded[1].family = <<"B">>
    /\ Len(entries) = 2
    /\ entries[1].files = << <<"a">>, <<"b">> >>

\* a < b for strings and for lists of pairs, stated on positions: they agree
\* on a prefix, after which a ends first or holds the smaller item.
LexLess(a, b, Lt(_, _)) ==
    \E k \in 0..Min(Len(a), Len(b)) :
        /\ \A i \in 1..k : a[i] = b[i]
        /\ \/ k = Len(a) /\ k < Len(b)
           \/ k < Len(a) /\ k < Len(b) /\ Lt(a[k + 1], b[k + 1])
CharLess(c, d) == Ord(c) < Ord(d)
PairLess(p, q) == p[1] < q[1] \/ (p[1] = q[1] /\ p[2] < q[2])
StrLess(a, b) == LexLess(a, b, CharLess)

\* The font files the build groups, and the files a legacy entry names.
GroupedFonts == {f \in Range(paths) : IsFontFile(f)}
FilesOf(raw) == (IF raw.file /= <<>> THEN {raw.file} ELSE {}) \cup Range(raw.files)

\* C4: an entry's files are exactly the paths of the inputs with its family
\* and its RangeSet, each once, in ascending order, and every input's
\* (family, RangeSet) has its entry.
C4_FilesMerged ==
    Finished =>
        /\ \A i \in DOMAIN entries :
              \A j \in 1..(Len(entries[i].files) - 1) :
                  StrLess(entries[i].files[j], entries[i].files[j + 1])
        /\ prog = "build" =>
              /\ \A i \in DOMAIN entries :
                    Range(entries[i].files) =
                        {rel_path(f) : f \in {g \in GroupedFonts :
                            /\ g.family = entries[i].family
                            /\ Range(g.cmap) = Covered(entries[i].unicode_ranges)}}
              /\ \A f \in GroupedFonts : \E i \in DOMAIN entries :
                    /\ entries[i].family = f.family
                    /\ Covered(entries[i].unicode_ranges) = Range(f.cmap)
        /\ prog = "migrate" =>
              /\ \A i \in DOMAIN entries :
                    Range(entries[i].files) =
                        UNION {FilesOf(raw) : raw \in {r \in Range(loaded) :
                            /\ r.family = entries[i].family
                            /\ _normalize_entry(r).ranges = entries[i].unicode_ranges}}
              /\ \A raw \in Range(loaded) : \E i \in DOMAIN entries :
                    /\ entries[i].family = raw.family
                    /\ entries[i].unicode_ranges = _normalize_entry(raw).ranges

C4_Witness ==
    /\ prog = "build" /\ pc = "done"
    /\ Len(entries) = 2
    /\ entries[1].family = entries[2].family
    /\ entries[1].unicode_ranges = << <<65, 67>> >>
    /\ entries[2].unicode_ranges = << <<65, 67>>, <<70, 70>> >>
    /\ entries[2].files = << rel_path(Font(<<"A">>, <<"b", ".", "t", "t", "f">>, <<>>, TRUE)),
                             rel_path(Font(<<"A">>, <<"r", ".", "t", "t", "f">>, <<>>, TRUE)) >>

SameKey(e, f) == e.family = f.family /\ e.unicode_ranges = f.unicode_ranges
NoSharedKey(seq) == \A i, j \in DOMAIN seq : SameKey(seq[i], seq[j]) => i = j

\* C5: after each input is accumulated, and in the entries and the file
\* written, no two entries have the same family and the same unicode_ranges.
C5_UniqueKeys ==
    /\ NoSharedKey([i \in DOMAIN grouped |-> grouped[i].value])
    /\ NoSharedKey(entries)
    /\ pc = "done" => NoSharedKey(fs[output_path])

C5_Witness ==
    /\ pc = "grouping" /\ idx = 3
    /\ Len(grouped) = 2
    /\ grouped[1].value.family = grouped[2].value.family
    /\ Len(grouped[1].value.files) = 2

\* The numbers a written range holds.
Decoded(rs) == [j \in DOMAIN rs |-> <<construct(rs[j].l[1]).n, construct(rs[j].l[2]).n>>]

\* C6: the entries written are those of the sorted list in its order, and any
\* two consecutive ones are strictly ascending by family, then by the range
\* sequence (a proper prefix before its extension).
C6_SortedCatalog ==
    pc = "done" =>
        /\ Len(fs[output_path]) = Len(entries)
        /\ \A i \in DOMAIN entries :
              /\ fs[output_path][i].family = entries[i].family
              /\ fs[output_path][i].files = entries[i].files
              /\ Decoded(fs[output_path][i].unicode_ranges) = entries[i].unicode_ranges
        /\ \A i \in 1..(Len(entries) - 1) :
              \/ StrLess(entries[i].family, entries[i + 1].family)
              \/ /\ entries[i].family = entries[i + 1].family
                 /\ LexLess(entries[i].unicode_ranges, entries[i + 1].unicode_ranges, PairLess)

C6_Witness ==
    /\ pc = "done"
    /\ Len(entries) = 3
    /\ entries[1].family = entries[2].family
    /\ entries[1].unicode_ranges /= entries[2].unicode_ranges
    /\ entries[3].family = <<"a">>

\* The entry whose normalization ended the migration.
FailedEntry == loaded[idx + 1]

\* A range value outside the shapes C8 lists as recognized: a list of a
\* length other than 1 and 2, a value that is no string, list or number, a
\* list item that is neither a string nor a number.
IsScalarItem(x) == x.t \in {"str", "int", "float"}
OutsideShapes(v) ==
    \/ v.t = "list" /\ Len(v.l) \notin {1, 2}
    \/ v.t \notin {"str", "list", "int"}
    \/ v.t = "list" /\ \E k \in DOMAIN v.l : ~IsScalarItem(v.l[k])

\* The exception the code raises for a value outside the shapes, by shape.
ExpectedError(v) ==
    IF v.t \notin {"str", "list"}
    THEN Raise("TypeError", "Unsupported range type", PyType(v))
    ELSE IF Len(v.l) \notin {1, 2}
    THEN Raise("ValueError", "Range list must have 1 or 2 elements", v)
    ELSE Raise("TypeError", "Unsupported codepoint value",
               v.l[CHOOSE k \in DOMAIN v.l :
                      /\ v.l[k].t \notin {"str", "int"}
                      /\ \A m \in 1..(k - 1) : v.l[m].t = "int"])

\* The failed run produced no entries and wrote no file: the input still
\* loads to what was read, and a separate output is still missing.
NothingProduced ==
    /\ entries = <<>>
    /\ safe_load(fs[input_path]) = loaded
    /\ output_path /= input_path => fs[output_path] = <<>>

\* The range value that failed: the first one _parse_range refuses.
FailedValues ==
    {v \in Range(FailedEntry.unicode_ranges) :
        \E j \in DOMAIN FailedEntry.unicode_ranges :
            /\ FailedEntry.unicode_ranges[j] = v
            /\ ~_parse_range(v).ok
            /\ \A k \in 1..(j - 1) : _parse_range(FailedEntry.unicode_ranges[k]).ok}

\* C8 as stated: a value outside the shapes ends the migration with an error
\* that identifies the offending value (the value, or the item of it that is
\* at fault), and no entries are produced.
C8_ErrorNamesValue ==
    /\ (prog = "migrate" /\ pc = "failed") =>
          /\ NothingProduced
          /\ \A v \in FailedValues :
                OutsideShapes(v) => raised.shown \in ({v} \cup Range(v.l))
    /\ (prog = "migrate" /\ Finished) =>
          \A raw \in Range(loaded) : \A v \in Range(raw.unicode_ranges) : ~OutsideShapes(v)

\* C8 amended: a value outside the shapes ends the migration with a
\* ValueError or TypeError and no entries are produced: a list of the wrong
\* length raises a ValueError showing the list, a list item that is neither
\* str nor int a TypeError showing the item, and a value that is neither a
\* string nor a list (a mapping) a TypeError showing only its type.
C8_ErrorByShape ==
    /\ (prog = "migrate" /\ pc = "failed") =>
          /\ NothingProduced
          /\ \A v \in FailedValues :
                OutsideShapes(v) => raised = ExpectedError(v)
    /\ (prog = "migrate" /\ Finished) =>
          \A raw \in Range(loaded) : \A v \in Range(raw.unicode_ranges) : ~OutsideShapes(v)

C8_Witness ==
    /\ prog = "migrate" /\ pc = "failed"
    /\ idx = 1
    /\ FailedEntry.unicode_ranges = <<PyDict>>
    /\ raised = Raise("TypeError", "Unsupported range type", PyType(PyDict))

\* migrate's result as the entries a second migrate is handed: the pairs are
\* tuples of ints, which _parse_range takes like lists.
AsLegacy(es) ==
    [i \in DOMAIN es |->
        [family |-> es[i].family, file |-> <<>>, files |-> es[i].files,
         unicode_ranges |-> [j \in DOMAIN es[i].unicode_ranges |->
            PyList(<<PyInt(es[i].unicode_ranges[j][1]), PyInt(es[i].unicode_ranges[j][2])>>)]]]

Migrated(es) == [ok |-> TRUE, result |-> es, raised |-> NotRaised]

\* C9: migrating a migration's result gives that result again, entry for
\* entry, in memory and through the file written; each pair the serializer
\* writes normalizes to the pair it was; a second run of the tool on its
\* output reproduces the file.
C9_RemigrationIdempotent ==
    (prog = "migrate" /\ Finished) =>
        /\ migrate(AsLegacy(entries)) = Migrated(entries)
        /\ migrate(safe_load(dump(entries))) = Migrated(entries)
        /\ \A i \in DOMAIN entries : \A j \in DOMAIN entries[i].unicode_ranges :
              _parse_range(construct(_represent_tuple(entries[i].unicode_ranges[j])))
                  = Return(entries[i].unicode_ranges[j][1], entries[i].unicode_ranges[j][2])
        /\ run > 1 => dump(entries) = fs[input_path]

C9_Witness ==
    /\ prog = "migrate" /\ pc = "done" /\ run = 2
    /\ Len(entries) = 2
    /\ entries[1].unicode_ranges = << <<65, 90>>, <<97, 122>> >>
    /\ entries[2].unicode_ranges = << <<65, 90>>, <<128512, 128512>> >>

\* Some input of the run cannot be extracted or normalized.
SomeInputFails ==
    \/ prog = "build" /\ \E f \in Range(listing) : IsFontFile(f) /\ ~f.readable
    \/ prog = "migrate" /\ \E raw \in Range(loaded) : ~_normalize_entry(raw).ok

InputsConsumed ==
    IF prog = "build" THEN idx = Len(paths) ELSE idx = Len(loaded)

\* C10: a catalog file changes only in the write step, which comes after
\* every input was extracted or normalized without failure and the entries
\* were sorted; a run with a failing input never gets to sorting or writing,
\* and a failed run stays failed with the files as they were.
C10_NoPartialWrite ==
    /\ [](SomeInputFails => pc \in {"start", "grouping", "failed"})
    /\ [][ /\ fs' /= fs =>
                /\ pc = "sorted" /\ pc' = "done"
                /\ InputsConsumed /\ ~SomeInputFails /\ raised = NotRaised
                /\ fs'[output_path] = dump(entries)
                /\ \A p \in DOMAIN fs : p /= output_path => fs'[p] = fs[p]
           /\ pc = "failed" => (pc' = "failed" /\ fs' = fs)
         ]_vars

C10_Witness ==
    /\ prog = "migrate" /\ pc = "failed"
    /\ output_path = input_path
    /\ idx = 2
    /\ Len(grouped) = 2
    /\ safe_load(fs[input_path]) = loaded

====
